---- MODULE Spec2Model ----
(***************************************************************************)
(* A model of examples/keras_recipes/sklearn_metric_callbacks.py:          *)
(* the JaccardScoreCallback object, the end-of-epoch hook it defines, the  *)
(* summary writer it appends to, and the fit loop that drives it.          *)
(*                                                                         *)
(* The hook is modelled statement by statement (pc is its position), so    *)
(* that an exception raised by a library call leaves exactly the state the *)
(* statements before it produced.  While a call is active no other action  *)
(* is enabled: the steps of one call are never optional or interleaved.    *)
(*                                                                         *)
(* Floating point values are modelled as exact rationals: a per-class      *)
(* score is an integer number of 1/Scale units, a logged value a reduced   *)
(* fraction.  Rounding of float32 arithmetic is not modelled.              *)
(***************************************************************************)
EXTENDS Integers, Sequences, FiniteSets

\* ------------------------------------------------------------ bounds
\* Number of held-out samples (x_test.shape[0]).
NumSamples == 2
\* Number of classes of the classifier (the source trains with 10).
NumClasses == 2
\* Largest `epochs` argument a fit run is started with (the source uses 15).
MaxEpochs == 2
\* Total number of on_epoch_end invocations explored, over all fit runs.
MaxCalls == 2
\* Training batches per epoch.
StepsPerEpoch == 1

\* ------------------------------------------------------------ data
Classes == 0 .. (NumClasses - 1)

\* Quantised class scores.  ArgMax depends only on the order of the scores of
\* a row, so two levels are enough.
Probs == {0, 1}

\* The rows model.predict may return: a row with one largest score, at any
\* class, or a row whose scores are all equal (a tie).
ScoreRows ==
    {[d \in Classes |-> IF d = c THEN 1 ELSE 0] : c \in Classes}
        \cup {[d \in Classes |-> p] : p \in Probs}

RECURSIVE Fact(_)
Fact(n) == IF n <= 1 THEN 1 ELSE n * Fact(n - 1)

\* Scores are counted in units of 1/Scale.  Every denominator tp+fp+fn is at
\* most NumSamples, so every per-class score is a whole number of units.
Scale == Fact(NumSamples)

RECURSIVE GCD(_, _)
GCD(a, b) == IF b = 0 THEN a ELSE GCD(b, a % b)

\* A float value, as a reduced fraction.
Frac(n, d) == LET g == GCD(n, d) IN [num |-> n \div g, den |-> d \div g]

\* The name of keras.metrics.Mean("jaccard_score").
MetricName == "jaccard_score"

\* os.path.join(log_dir, name) with log_dir = "logs".
LogPath == "logs/model"

\* ------------------------------------------------------------ state
VARIABLES
    x_test,          \* held-out inputs: the number of rows
    y_test,          \* held-out labels: a sequence of class indices
    keras_metric,    \* the Mean accumulator [name, total, count]
    epoch,           \* the callback's own counter
    summary_writer,  \* [path, pending, flushed]: buffered and written events
    pc,              \* position inside on_epoch_end ("idle" outside a call)
    batch,           \* the hook's first positional argument
    predictions,     \* local: model.predict(x_test), rows of class scores
    pred_classes,    \* local: ops.argmax(predictions, axis=-1)
    jaccard_value,   \* local: the per-class score vector
    exc,             \* the exception in flight ("none" when there is none)
    fit,             \* the fit run: "none", "training", "hook", "done", "failed"
    epochs,          \* the epochs argument of the current fit run
    fitEpoch,        \* the 0-based epoch index of the current fit run
    step,            \* training batches done in the current epoch
    fitError,        \* the exception fit ended with
    fits,            \* history: fit runs started
    calls,           \* history: on_epoch_end invocations
    failed,          \* history: the calls that raised, with the statement
    trace,           \* history: statements executed by the current call
    entryStream      \* history: the log stream when the current call began

vars == <<x_test, y_test, keras_metric, epoch, summary_writer, pc, batch,
          predictions, pred_classes, jaccard_value, exc, fit, epochs,
          fitEpoch, step, fitError, fits, calls, failed, trace, entryStream>>

callbackFields == <<x_test, y_test, keras_metric, epoch, summary_writer>>
locals == <<predictions, pred_classes, jaccard_value>>
fitVars == <<fit, epochs, fitEpoch, step, fitError, fits>>

\* The log stream in append order: what is on disk, then what is buffered.
Stream == summary_writer.flushed \o summary_writer.pending

NoRows == <<>>

\* ------------------------------------------------------------ pure functions
\* ops.argmax(row): the index of the first largest score of the row.
ArgMax(row) ==
    CHOOSE c \in Classes :
        /\ \A d \in Classes : row[d] <= row[c]
        /\ \A d \in Classes : d < c => row[d] < row[c]

\* ops.argmax(predictions, axis=-1): one class index per row.
ArgMaxRows(rows) == [i \in DOMAIN rows |-> ArgMax(rows[i])]

\* The labels jaccard_score scores: those present in either vector, ascending.
LabelSet(y_true, y_pred) ==
    {y_true[i] : i \in DOMAIN y_true} \cup {y_pred[i] : i \in DOMAIN y_pred}

RECURSIVE SortedSeq(_)
SortedSeq(S) ==
    IF S = {} THEN <<>>
    ELSE LET m == CHOOSE x \in S : \A y \in S : x <= y
         IN <<m>> \o SortedSeq(S \ {m})

UniqueLabels(y_true, y_pred) == SortedSeq(LabelSet(y_true, y_pred))

\* Entries of the confusion matrix of class c.
TruePos(y_true, y_pred, c) ==
    Cardinality({i \in DOMAIN y_true : y_true[i] = c /\ y_pred[i] = c})
FalsePos(y_true, y_pred, c) ==
    Cardinality({i \in DOMAIN y_true : y_true[i] # c /\ y_pred[i] = c})
FalseNeg(y_true, y_pred, c) ==
    Cardinality({i \in DOMAIN y_true : y_true[i] = c /\ y_pred[i] # c})

\* A plausible slip: precision (tp / (tp + fp)) in place of the Jaccard index.
PrecisionClass(y_true, y_pred, c) ==
    LET tp == TruePos(y_true, y_pred, c)
        d  == tp + FalsePos(y_true, y_pred, c)
    IN IF d = 0 THEN 0 ELSE (tp * Scale) \div d

\* The Jaccard index of class c, tp / (tp + fp + fn), in units of 1/Scale;
\* 0 when the denominator is 0.
JaccardClass(y_true, y_pred, c) ==
    LET tp == TruePos(y_true, y_pred, c)
        d  == tp + FalsePos(y_true, y_pred, c) + FalseNeg(y_true, y_pred, c)
    IN IF d = 0 THEN 0 ELSE (tp * Scale) \div d

\* jaccard_score rejects vectors of different lengths (ValueError).
ConsistentLength(y_true, y_pred) == Len(y_true) = Len(y_pred)

\* jaccard_score(y_true, y_pred, average=None): one score per label.
JaccardScore(y_true, y_pred) ==
    LET labels == UniqueLabels(y_true, y_pred)
    IN [k \in 1 .. Len(labels) |-> JaccardClass(y_true, y_pred, labels[k])]

RECURSIVE SumSeq(_)
SumSeq(s) == IF s = <<>> THEN 0 ELSE Head(s) + SumSeq(Tail(s))

\* keras.metrics.Mean("jaccard_score") as constructed.
NewMean == [name |-> MetricName, total |-> 0, count |-> 0]

\* A plausible slip: the accumulator is not reset.
KeepState(m) == m

\* Mean.reset_state(): total and count back to zero.
ResetState(m) == [m EXCEPT !.total = 0, !.count = 0]

\* A plausible slip: the vector counted as one observation.
UpdateStateCountOne(m, values) ==
    [m EXCEPT !.total = m.total + SumSeq(values), !.count = m.count + 1]

\* Mean.update_state(values): adds the sum and the number of the values.
UpdateState(m, values) ==
    [m EXCEPT !.total = m.total + SumSeq(values),
              !.count = m.count + Len(values)]

\* Mean.result(): total / count, and 0 when count is 0.
Result(m) ==
    IF m.count = 0 THEN Frac(0, 1) ELSE Frac(m.total, m.count * Scale)

\* A plausible slip: epoch += 2.
IncrEpochTwice(e) == e + 2

\* A plausible slip: the counter is never advanced.
IncrEpochNever(e) == e

\* self.epoch += 1
IncrEpoch(e) == e + 1

\* A plausible slip: step=batch, the hook's argument.
ScalarStepFromArg(e, b) == b

\* step=self.epoch: the step an entry is tagged with; the hook's argument
\* (b) is never read.
ScalarStep(e, b) == e

\* A plausible slip: the scalar is emitted twice.
WriteScalarTwice(w, name, value, s) ==
    LET e == [name |-> name, value |-> value, step |-> s]
    IN [w EXCEPT !.pending = Append(Append(w.pending, e), e)]

\* tf.summary.scalar(name, value, step): one event appended to the buffer of
\* the default writer.
WriteScalar(w, name, value, s) ==
    [w EXCEPT !.pending =
        Append(w.pending, [name |-> name, value |-> value, step |-> s])]

\* A plausible slip: the file is rewritten with the buffer.
FlushTruncate(w) == [w EXCEPT !.flushed = w.pending, !.pending = <<>>]

\* A plausible slip: flush is left out.
FlushNothing(w) == w

\* summary_writer.flush(): the buffered events go to the file, in order.
Flush(w) == [w EXCEPT !.flushed = w.flushed \o w.pending, !.pending = <<>>]

\* tf.summary.create_file_writer(path): nothing written yet.
NewWriter == [path |-> LogPath, pending |-> <<>>, flushed |-> <<>>]

\* ------------------------------------------------------------ construction
\* The held-out label vectors a callback may be built with: as long as the
\* inputs, or one short (the shape mismatch jaccard_score rejects).  The
\* held-out set is listed in label order: the confusion counts do not change
\* when both vectors are permuted alike, and predict ranges over every
\* assignment of rows to inputs.
LabelVectors ==
    {y \in UNION {[1 .. n -> Classes] : n \in {NumSamples - 1, NumSamples}} :
        \A i \in DOMAIN y : \A j \in DOMAIN y : i < j => y[i] <= y[j]}

\* JaccardScoreCallback.__init__, and the script before model.fit.
Init ==
    /\ x_test = NumSamples
    /\ y_test \in LabelVectors
    /\ keras_metric = NewMean
    /\ epoch = 0
    /\ summary_writer = NewWriter
    /\ pc = "idle"
    /\ batch = 0
    /\ predictions = NoRows
    /\ pred_classes = NoRows
    /\ jaccard_value = NoRows
    /\ exc = "none"
    /\ fit = "none"
    /\ epochs = 0
    /\ fitEpoch = 0
    /\ step = 0
    /\ fitError = "none"
    /\ fits = 0
    /\ calls = 0
    /\ failed = {}
    /\ trace = <<>>
    /\ entryStream = <<>>

\* ------------------------------------------------------------ the fit loop
\* model.fit(..., epochs=n, callbacks=[callback]) is entered.  The same
\* callback object may be handed to a later fit run.
FitBegin ==
    /\ fit \in {"none", "done", "failed"}
    /\ pc = "idle"
    /\ \E n \in 1 .. MaxEpochs :
        /\ calls + n <= MaxCalls
        /\ epochs' = n
    /\ fit' = "training"
    /\ fitEpoch' = 0
    /\ step' = 0
    /\ fitError' = "none"
    /\ fits' = fits + 1
    /\ UNCHANGED <<callbackFields, locals, pc, batch, exc, calls, failed,
                   trace, entryStream>>

\* One training batch of the current epoch; the callback defines no batch
\* hook, so none of its fields is touched.
TrainStep ==
    /\ fit = "training"
    /\ step < StepsPerEpoch
    /\ step' = step + 1
    /\ UNCHANGED <<callbackFields, locals, pc, batch, exc, fit, epochs,
                   fitEpoch, fitError, fits, calls, failed, trace,
                   entryStream>>

\* The epoch's batches are done: fit calls on_epoch_end(epoch_index, logs).
CallOnEpochEnd ==
    /\ fit = "training"
    /\ step = StepsPerEpoch
    /\ fit' = "hook"
    /\ pc' = "incr"
    /\ batch' = fitEpoch
    /\ calls' = calls + 1
    /\ trace' = <<>>
    /\ entryStream' = Stream
    /\ UNCHANGED <<callbackFields, locals, exc, epochs, fitEpoch, step,
                   fitError, fits, failed>>

\* on_epoch_end returned: fit goes on to the next epoch, or ends.
HookReturn ==
    /\ pc = "return"
    /\ pc' = "idle"
    /\ predictions' = NoRows
    /\ pred_classes' = NoRows
    /\ jaccard_value' = NoRows
    /\ IF fitEpoch + 1 < epochs
         THEN /\ fit' = "training"
              /\ fitEpoch' = fitEpoch + 1
              /\ step' = 0
         ELSE /\ fit' = "done"
              /\ UNCHANGED <<fitEpoch, step>>
    /\ UNCHANGED <<callbackFields, batch, exc, epochs, fitError, fits, calls,
                   failed, trace, entryStream>>

\* on_epoch_end raised: neither the hook nor fit catches, so fit ends with
\* the same exception.
FitPropagate ==
    /\ pc = "raise"
    /\ pc' = "idle"
    /\ fit' = "failed"
    /\ fitError' = exc
    /\ exc' = "none"
    /\ predictions' = NoRows
    /\ pred_classes' = NoRows
    /\ jaccard_value' = NoRows
    /\ UNCHANGED <<callbackFields, batch, epochs, fitEpoch, step, fits, calls,
                   failed, trace, entryStream>>

\* ------------------------------------------------------------ on_epoch_end
\* An exception leaves the hook at statement `at`.
Raise(e, at) ==
    /\ exc' = e
    /\ pc' = "raise"
    /\ failed' = failed \cup {[call |-> calls, at |-> at, err |-> e]}
    /\ UNCHANGED <<callbackFields, locals, batch, fitVars, calls, trace,
                   entryStream>>

\* self.epoch += 1
OnEpochEndIncr ==
    /\ pc = "incr"
    /\ epoch' = IncrEpoch(epoch)
    /\ pc' = "reset"
    /\ trace' = Append(trace, "incr")
    /\ UNCHANGED <<x_test, y_test, keras_metric, summary_writer, locals,
                   batch, exc, fitVars, calls, failed, entryStream>>

\* self.keras_metric.reset_state()
OnEpochEndReset ==
    /\ pc = "reset"
    /\ keras_metric' = ResetState(keras_metric)
    /\ pc' = "predict"
    /\ trace' = Append(trace, "reset")
    /\ UNCHANGED <<x_test, y_test, epoch, summary_writer, locals, batch, exc,
                   fitVars, calls, failed, entryStream>>

\* predictions = self.model.predict(self.x_test): one row of class scores
\* per held-out input, whatever the model currently computes.
OnEpochEndPredict ==
    /\ pc = "predict"
    /\ predictions' \in [1 .. x_test -> ScoreRows]
    /\ pc' = "argmax"
    /\ trace' = Append(trace, "predict")
    /\ UNCHANGED <<callbackFields, pred_classes, jaccard_value, batch, exc,
                   fitVars, calls, failed, entryStream>>

\* model.predict raises (the framework's own failure).
OnEpochEndPredictFail ==
    /\ pc = "predict"
    /\ Raise("PredictError", "predict")

\* ops.argmax(predictions, axis=-1), the first argument of jaccard_score.
\* The scores are not read again: the model keeps the class indices only.
OnEpochEndArgmax ==
    /\ pc = "argmax"
    /\ pred_classes' = ArgMaxRows(predictions)
    /\ predictions' = NoRows
    /\ pc' = "jaccard"
    /\ trace' = Append(trace, "argmax")
    /\ UNCHANGED <<callbackFields, jaccard_value, batch, exc, fitVars, calls,
                   failed, entryStream>>

\* jaccard_value = jaccard_score(argmax, self.y_test, average=None): the
\* predicted classes go in the y_true position, the labels in y_pred.
OnEpochEndJaccard ==
    /\ pc = "jaccard"
    /\ ConsistentLength(pred_classes, y_test)
    /\ jaccard_value' = JaccardScore(pred_classes, y_test)
    /\ pc' = "update"
    /\ trace' = Append(trace, "jaccard")
    /\ UNCHANGED <<callbackFields, predictions, pred_classes, batch, exc,
                   fitVars, calls, failed, entryStream>>

\* A plausible slip: the hook catches the error and logs a score of 0.
OnEpochEndJaccardSubstitute ==
    /\ pc = "jaccard"
    /\ ~ConsistentLength(pred_classes, y_test)
    /\ jaccard_value' = <<0>>
    /\ pc' = "update"
    /\ failed' = failed \cup {[call |-> calls, at |-> "jaccard",
                               err |-> "ValueError"]}
    /\ trace' = Append(trace, "jaccard")
    /\ UNCHANGED <<callbackFields, predictions, pred_classes, batch, exc,
                   fitVars, calls, entryStream>>

\* jaccard_score raises ValueError on vectors of different lengths; the hook
\* has no handler.
OnEpochEndJaccardFail ==
    /\ pc = "jaccard"
    /\ ~ConsistentLength(pred_classes, y_test)
    /\ Raise("ValueError", "jaccard")

\* self.keras_metric.update_state(jaccard_value)
OnEpochEndUpdate ==
    /\ pc = "update"
    /\ keras_metric' = UpdateState(keras_metric, jaccard_value)
    /\ pc' = "write"
    /\ trace' = Append(trace, "update")
    /\ UNCHANGED <<x_test, y_test, epoch, summary_writer, locals, batch, exc,
                   fitVars, calls, failed, entryStream>>

\* self._write_metric(name, result): tf.summary.scalar(name, value,
\* step=self.epoch) under the callback's writer.
WriteMetricScalar ==
    /\ pc = "write"
    /\ summary_writer' =
          WriteScalar(summary_writer, keras_metric.name, Result(keras_metric),
                      ScalarStep(epoch, batch))
    /\ pc' = "flush"
    /\ trace' = Append(trace, "write")
    /\ UNCHANGED <<x_test, y_test, keras_metric, epoch, locals, batch, exc,
                   fitVars, calls, failed, entryStream>>

\* tf.summary.scalar raises (an I/O error of the writer): nothing is appended.
WriteMetricScalarFail ==
    /\ pc = "write"
    /\ Raise("IOError", "write")

\* self.summary_writer.flush()
WriteMetricFlush ==
    /\ pc = "flush"
    /\ summary_writer' = Flush(summary_writer)
    /\ pc' = "return"
    /\ trace' = Append(trace, "flush")
    /\ UNCHANGED <<x_test, y_test, keras_metric, epoch, locals, batch, exc,
                   fitVars, calls, failed, entryStream>>

\* flush raises (an I/O error writing the file): the event stays buffered.
WriteMetricFlushFail ==
    /\ pc = "flush"
    /\ Raise("IOError", "flush")

Next ==
    \/ FitBegin
    \/ TrainStep
    \/ CallOnEpochEnd
    \/ HookReturn
    \/ FitPropagate
    \/ OnEpochEndIncr
    \/ OnEpochEndReset
    \/ OnEpochEndPredict
    \/ OnEpochEndPredictFail
    \/ OnEpochEndArgmax
    \/ OnEpochEndJaccard
    \/ OnEpochEndJaccardFail
    \/ OnEpochEndUpdate
    \/ WriteMetricScalar
    \/ WriteMetricScalarFail
    \/ WriteMetricFlush
    \/ WriteMetricFlushFail

Spec == Init /\ [][Next]_vars

\* ------------------------------------------------------------ properties
IsPrefix(s, t) == Len(s) <= Len(t) /\ \A i \in 1 .. Len(s) : s[i] = t[i]

LastEntry == Stream[Len(Stream)]

\* The statements of one on_epoch_end call, in source order.
FullOrder ==
    <<"incr", "reset", "predict", "argmax", "jaccard", "update", "write",
      "flush">>

\* The positions of a call that has not emitted its scalar yet.
BeforeWrite ==
    {"incr", "reset", "predict", "argmax", "jaccard", "update", "write"}

\* The calls that raised before their scalar was emitted.
FailedBeforeWrite == {f.call : f \in {g \in failed : g.at # "flush"}}

StepsLogged == {Stream[i].step : i \in DOMAIN Stream}

\* C1: while no call has failed, the log holds one entry per on_epoch_end
\* call made (the call in progress counted once it has emitted its scalar);
\* the log grows only in the scalar statement of on_epoch_end, by one entry.
C1_OneEntryPerCall ==
    /\ [](failed = {} =>
            Len(Stream) = calls - (IF pc \in BeforeWrite THEN 1 ELSE 0))
    /\ [][Stream' # Stream =>
            /\ pc = "write"
            /\ fit = "hook"
            /\ Len(Stream') = Len(Stream) + 1]_vars

\* C1 witness: a fit run of two epochs ended without a failure, two entries.
C1_Witness ==
    fit = "done" /\ failed = {} /\ calls = 2 /\ epochs = 2 /\ Len(Stream) = 2

\* C2 as stated: the step of the entry just appended is the hook's first
\* positional argument.
C2_StepIsHookArgument ==
    pc = "flush" => LastEntry.step = batch

\* C2 amended: the step of the entry just appended is the callback's own
\* counter after its increment, that is the number of on_epoch_end calls made
\* on this object; the hook's argument is not read, and within the first fit
\* run the step is that 0-based argument plus one.
C2_StepIsOwnCounter ==
    pc \in {"flush", "return"} =>
        /\ LastEntry.step = epoch
        /\ LastEntry.step = calls
        /\ (fits = 1 => LastEntry.step = batch + 1)

\* C2 witness: the first epoch of a second fit run on the same object logs
\* step 2 while the hook's argument is 0.
C2_Witness ==
    pc = "flush" /\ fits = 2 /\ batch = 0 /\ LastEntry.step = 2

\* The class-c intersection and union of predicted and true positions.
RefInter(pred, truth, c) ==
    {i \in DOMAIN pred : pred[i] = c} \cap {i \in DOMAIN truth : truth[i] = c}
RefUnion(pred, truth, c) ==
    {i \in DOMAIN pred : pred[i] = c} \cup {i \in DOMAIN truth : truth[i] = c}

RECURSIVE RefDen(_, _, _)
RefDen(pred, truth, L) ==
    IF L = {} THEN 1
    ELSE LET c == CHOOSE x \in L : TRUE
         IN Cardinality(RefUnion(pred, truth, c)) * RefDen(pred, truth, L \ {c})

RECURSIVE RefNum(_, _, _)
RefNum(pred, truth, L) ==
    IF L = {} THEN 0
    ELSE LET c == CHOOSE x \in L : TRUE
             rest == L \ {c}
         IN Cardinality(RefInter(pred, truth, c)) * RefDen(pred, truth, rest)
              + Cardinality(RefUnion(pred, truth, c)) * RefNum(pred, truth, rest)

\* C3: the value just appended is the unweighted mean over the classes
\* present of |P_c /\ T_c| / |P_c \/ T_c|, P_c the held-out inputs predicted
\* (by argmax) as c and T_c those labelled c; it carries the metric's name,
\* and the call ran inference, argmax, score, mean update, append in order.
C3_ValueIsMeanJaccard ==
    pc = "flush" =>
        LET L == LabelSet(pred_classes, y_test)
            v == LastEntry.value
        IN /\ v.num * (Cardinality(L) * RefDen(pred_classes, y_test, L))
                = v.den * RefNum(pred_classes, y_test, L)
           /\ LastEntry.name = MetricName
           /\ trace = SubSeq(FullOrder, 1, 7)

\* C3 witness: labels (0, 1), both inputs predicted 0: scores 1/2 and 0,
\* logged mean 1/4.
C3_Witness ==
    /\ pc = "flush"
    /\ y_test = <<0, 1>>
    /\ pred_classes = <<0, 0>>
    /\ LastEntry.value = [num |-> 1, den |-> 4]
    /\ calls = 2

\* C4: from the update on, the accumulator holds the scores of the current
\* call only, and the value appended is the one a newly built callback logs
\* for the same predictions and labels, whatever earlier calls accumulated.
C4_Stateless ==
    pc \in {"write", "flush", "return"} =>
        LET fresh == UpdateState(NewMean, JaccardScore(pred_classes, y_test))
        IN /\ keras_metric = fresh
           /\ (pc # "write" => LastEntry.value = Result(fresh))

\* C4 witness: a second call has logged a value different from the first.
C4_Witness ==
    /\ pc = "flush"
    /\ Len(Stream) = 2
    /\ Stream[1].value # Stream[2].value

\* C5: what earlier calls appended is a prefix of the log, and no step
\* rewrites, reorders or removes an entry of the log or of the file.
C5_AppendOnly ==
    /\ [](IsPrefix(entryStream, Stream))
    /\ [][/\ IsPrefix(Stream, Stream')
          /\ IsPrefix(summary_writer.flushed, summary_writer'.flushed)]_vars

\* C5 witness: a second entry is on file behind the first.
C5_Witness ==
    /\ pc = "return"
    /\ Len(entryStream) = 1
    /\ Len(summary_writer.flushed) = 2
    /\ summary_writer.flushed[1] = entryStream[1]

\* C6: the object is built with counter 0, an empty accumulator and an empty
\* writer; the counter moves only in the first statement of on_epoch_end, by
\* exactly 1, so it counts the calls; the fit loop's own steps change no
\* field, and no step changes the inputs, the labels or the log path.
C6_LifecycleFrame ==
    /\ [](fit = "none" =>
            epoch = 0 /\ keras_metric = NewMean /\ summary_writer = NewWriter)
    /\ [](epoch = calls - (IF pc = "incr" THEN 1 ELSE 0))
    /\ [][/\ epoch' # epoch => (pc = "incr" /\ epoch' = epoch + 1)
          /\ (pc \in {"idle", "return", "raise"} => UNCHANGED callbackFields)
          /\ UNCHANGED <<x_test, y_test>>
          /\ summary_writer'.path = summary_writer.path]_vars

\* C6 witness: two epochs done, counter 2.
C6_Witness ==
    fit = "done" /\ epoch = 2 /\ calls = 2 /\ fits = 1

\* What every call that raised has left behind.
FailedCallsLeaveNoEntry ==
    /\ \A f \in failed :
          /\ (f.call = calls =>
                /\ pc \in {"raise", "idle"}
                /\ (pc = "raise" => (exc = f.err /\ fit = "hook"))
                /\ (fit = "failed" => fitError = f.err)
                /\ (f.at # "flush" => Stream = entryStream))
          /\ (f.at # "flush" => f.call \notin StepsLogged)
    /\ (fit = "failed" => \E f \in failed : f.call = calls)
    /\ Cardinality({f.call : f \in failed}) = Cardinality(failed)

\* C7: an exception raised inside on_epoch_end ends the call and reaches the
\* caller of fit as raised; the call executes nothing after it, and a call
\* that failed before its scalar was emitted leaves the log as it found it.
C7_FailurePropagates ==
    /\ [](FailedCallsLeaveNoEntry)
    /\ [][pc = "raise" =>
            /\ pc' = "idle"
            /\ fit' = "failed"
            /\ fitError' = exc
            /\ UNCHANGED callbackFields]_vars

\* C7 witness: the second call failed in the scalar statement; fit ended with
\* that error and the log still holds the first entry only.
C7_Witness ==
    /\ fit = "failed"
    /\ fitError = "IOError"
    /\ calls = 2
    /\ [call |-> 2, at |-> "write", err |-> "IOError"] \in failed
    /\ Len(Stream) = 1

\* C8: steps are strictly increasing; the steps logged are the ordinals of
\* the calls that reached the scalar statement, so with no failure they are
\* 1, 2, ..., N, and the ordinal of a call that failed earlier is skipped;
\* the counter keeps counting every call, failed or not.
C8_StepsAreCallOrdinals ==
    /\ \A i \in 1 .. (Len(Stream) - 1) : Stream[i].step < Stream[i + 1].step
    /\ StepsLogged =
          ((1 .. calls) \ FailedBeforeWrite)
              \ (IF pc \in BeforeWrite THEN {calls} ELSE {})
    /\ (failed = {} => \A i \in DOMAIN Stream : Stream[i].step = i)
    /\ (pc # "incr" => epoch = calls)

\* C8 witness: the first call failed before the write, the second logged
\* step 2: step 1 never appears.
C8_Witness ==
    /\ pc = "return"
    /\ 1 \in FailedBeforeWrite
    /\ Len(Stream) = 1
    /\ Stream[1].step = 2

\* C9: the score vector the hook computes, with the predicted classes passed
\* as y_true and the labels as y_pred, is the vector for the conventional
\* order (labels as y_true), over the same labels in the same order, and so
\* is the mean.
C9_SwapInvariant ==
    pc \in {"update", "write", "flush", "return"} =>
        /\ jaccard_value = JaccardScore(y_test, pred_classes)
        /\ UniqueLabels(pred_classes, y_test) = UniqueLabels(y_test, pred_classes)
        /\ Result(UpdateState(NewMean, jaccard_value))
              = Result(UpdateState(NewMean, JaccardScore(y_test, pred_classes)))

\* C9 witness: a score was computed for a class whose false positives and
\* false negatives differ, the two counts the swap exchanges.
C9_Witness ==
    /\ pc = "update"
    /\ \E c \in Classes :
          /\ FalsePos(pred_classes, y_test, c) = 1
          /\ FalseNeg(pred_classes, y_test, c) = 0
          /\ TruePos(pred_classes, y_test, c) = 1

\* C10: a call runs its statements in source order (reset, then update, then
\* write, then flush); when it returns nothing is buffered; the fit loop
\* moves only while no call is active, so an epoch that follows a returned
\* call starts with every earlier entry on file.
C10_SequentialAndFlushed ==
    /\ IsPrefix(trace, FullOrder)
    /\ (pc = "return" => trace = FullOrder /\ summary_writer.pending = <<>>)
    /\ (pc # "idle") = (fit = "hook")
    /\ ((fit = "training" /\ fitEpoch > 0) =>
            /\ summary_writer.pending = <<>>
            /\ Len(summary_writer.flushed) >= fitEpoch)
    /\ (fit = "done" => summary_writer.pending = <<>>)

\* C10 witness: the second epoch of a run is training with the first epoch's
\* entry on file.
C10_Witness ==
    /\ fit = "training"
    /\ fitEpoch = 1
    /\ step = StepsPerEpoch
    /\ Len(summary_writer.flushed) = 1
    /\ summary_writer.pending = <<>>

====
